---- MODULE Spec2Model ----
(***************************************************************************)
(* scripts/cleanup.py: removal of build and test artifacts from the        *)
(* project tree.  The file system is a map from path strings to entry      *)
(* kinds; the script is its three loops, one action per loop iteration.    *)
(*                                                                         *)
(* Environment assumed by the model: every directory is readable and       *)
(* nothing but the script changes the tree while it runs.  An entry in     *)
(* `locked` cannot be unlinked (os.remove / os.rmdir on it fails with      *)
(* PermissionError).  Symbolic links point at entries that are not         *)
(* themselves links.  A path names the entry where it really lies: what    *)
(* is reached through a link to a directory is the entry below the         *)
(* directory the link points at.  The two `for` loops over the sets        *)
(* FILES_TO_CLEAN and DIRS_TO_CLEAN visit their targets in any order, as   *)
(* does os.walk the entries of one directory.                              *)
(***************************************************************************)
EXTENDS Integers, Sequences, FiniteSets, TLC

\* ------------------------------------------------------------------ bounds
MaxLocked == 1      \* undeletable entries in the initial tree
MaxRuns == 2        \* successive runs of the script (SpecTwice)

\* -------------------------------------------------- configuration constants
FILES_TO_CLEAN == {".coverage", "coverage.xml", "dump.rdb"}

DIRS_TO_CLEAN ==
    {".nox", ".profile", ".pytest_cache", "__pycache__", "build", "dist",
     "docs/build", "coverage.xml", "dump.rdb"}

EXTENSIONS_TO_CLEAN == <<".dll", ".html", ".o", ".prof", ".pyd", ".pyc", ".so">>

\* os.path.dirname(os.path.dirname(os.path.abspath(__file__)))
root_dir == "/repo"

\* ------------------------------------------------------- string functions
\* str.endswith(suffix)
EndsWith(s, suf) ==
    /\ Len(s) >= Len(suf)
    /\ SubSeq(s, Len(s) - Len(suf) + 1, Len(s)) = suf

\* str.endswith(tuple of suffixes)
EndsWithAny(s, sufs) == \E i \in DOMAIN sufs : EndsWith(s, sufs[i])

\* os.path.join(a, b) for a relative b: one separator between the two
join(a, b) == IF EndsWith(a, "/") THEN a \o b ELSE a \o "/" \o b

\* index of the last "/" of s (0 when there is none)
RECURSIVE LastSlash(_, _)
LastSlash(s, i) ==
    IF i = 0 THEN 0
    ELSE IF SubSeq(s, i, i) = "/" THEN i ELSE LastSlash(s, i - 1)

\* the path the kernel resolves s to: a trailing separator is dropped
Norm(s) == IF Len(s) > 1 /\ EndsWith(s, "/") THEN SubSeq(s, 1, Len(s) - 1) ELSE s

dirname(s) == SubSeq(s, 1, LastSlash(s, Len(s)) - 1)
basename(s) == SubSeq(s, LastSlash(s, Len(s)) + 1, Len(s))

\* ------------------------------------------------------------ file system
NT == root_dir \o "/nautilus_trader"
EX == root_dir \o "/examples"

\* the entries a modelled tree may hold below root_dir
Paths ==
    {root_dir \o "/.coverage",
     root_dir \o "/coverage.xml",
     root_dir \o "/dump.rdb",
     root_dir \o "/build",
     root_dir \o "/build/lib.so",
     root_dir \o "/__pycache__",
     root_dir \o "/docs",
     root_dir \o "/docs/index.html",
     root_dir \o "/docs/build",
     NT,
     NT \o "/x.so",
     NT \o "/keep.py",
     NT \o "/foo.so",
     NT \o "/sub",
     NT \o "/sub/y.pyc",
     EX,
     EX \o "/z.html"}

Kinds == {"absent", "file", "dir", "link"}

Parent == [p \in Paths |-> dirname(p)]
Name == [p \in Paths |-> basename(p)]
Children(d) == {q \in Paths : Parent[q] = d}

\* p is d or lies below d
RECURSIVE IsUnder(_, _)
IsUnder(p, d) ==
    \/ p = d
    \/ p \in Paths /\ Parent[p] \in Paths /\ IsUnder(Parent[p], d)

VARIABLES
    fs,             \* [Paths -> Kinds]: the tree below root_dir
    readlink,       \* [Paths -> path]: where a "link" entry points
    locked,         \* entries whose unlink fails with PermissionError
    fs0,            \* the tree when the current run started
    pc,             \* "files", "dirs", "walk_nt", "walk_ex", "done", "aborted"
    files_left,     \* FILES_TO_CLEAN targets the first loop has not reached
    dirs_left,      \* DIRS_TO_CLEAN targets the second loop has not reached
    stack,          \* os.walk: directories still to list, innermost first
    root,           \* os.walk: the directory being yielded
    files,          \* os.walk: names of `files` the inner loop has not reached
    removed_count,
    reported,       \* <<n>> once "Removed n discrete files by extension." is printed
    err,            \* the uncaught exception, if any
    run,            \* number of the current run
    prev            \* the outcome of the previous run, if any

vars == <<fs, readlink, locked, fs0, pc, files_left, dirs_left, stack, root,
          files, removed_count, reported, err, run, prev>>

\* entry kind at a path; nothing exists outside the modelled entries
Kind(f, p) == IF p \in Paths THEN f[p] ELSE "absent"

\* ------------------------------------------------------ library semantics
islink(f, p) == Kind(f, p) = "link"

\* a test of the entry itself (lstat), as os.path.isfile is not
isfile_nofollow(f, p) == Kind(f, p) = "file"

\* os.path.isfile / os.path.isdir follow a symbolic link to its target
isfile(f, p) ==
    \/ Kind(f, p) = "file"
    \/ Kind(f, p) = "link" /\ Kind(f, readlink[p]) = "file"

isdir(f, p) ==
    \/ Kind(f, p) = "dir"
    \/ Kind(f, p) = "link" /\ Kind(f, readlink[p]) = "dir"

NoErr == [exc |-> "", path |-> "", at |-> ""]

\* os.remove(p): unlink(2).  A link is unlinked itself, never its target.
os_remove(f, p) ==
    IF Kind(f, p) = "absent" THEN [exc |-> "FileNotFoundError", fs |-> f]
    ELSE IF Kind(f, p) = "dir" THEN [exc |-> "IsADirectoryError", fs |-> f]
    ELSE IF p \in locked THEN [exc |-> "PermissionError", fs |-> f]
    ELSE [exc |-> "", fs |-> [f EXCEPT ![p] = "absent"]]

\* what shutil.rmtree can take away below its top: an entry goes when it is
\* not locked and, for a directory, when everything in it went
RECURSIVE Removable(_, _)
Removable(f, p) ==
    /\ p \notin locked
    /\ f[p] = "dir" =>
          \A c \in Children(p) : f[c] = "absent" \/ Removable(f, c)

\* shutil.rmtree(p, ignore_errors=True): a top that is absent, a file or a
\* link raises inside rmtree and the error is dropped; links met below the
\* top are unlinked, not followed
rmtree(f, p) ==
    IF Kind(f, p) # "dir" THEN f
    ELSE [q \in Paths |->
            IF IsUnder(q, p) /\ f[q] # "absent" /\ Removable(f, q)
            THEN "absent" ELSE f[q]]

\* os.scandir(d) as os.walk uses it: the entries, split into dirs and nondirs
\* by is_dir(); a failing scandir is ignored (onerror=None) and yields nothing
Listing(f, d) ==
    IF isdir(f, Norm(d))
    THEN {e \in Children(Norm(d)) : f[e] # "absent"}
    ELSE {}

WalkDirs(f, d) == {e \in Listing(f, d) : isdir(f, e)}
WalkFiles(f, d) == {Name[e] : e \in Listing(f, d) \ WalkDirs(f, d)}
\* a listing of the top directory alone, without descent
WalkInto_flat(f, d) == {}

\* followlinks=False: a directory reached through a link is not entered
WalkInto(f, d) == {join(d, Name[e]) : e \in {x \in WalkDirs(f, d) : ~islink(f, x)}}

\* ---------------------------------------------------------- initial trees
\* the kinds each modelled entry may have before the first run
Allowed ==
    [p \in Paths |->
        CASE p \in {root_dir \o "/coverage.xml", root_dir \o "/dump.rdb"}
                -> {"absent", "file", "dir"}
          [] p \in {root_dir \o "/build", root_dir \o "/__pycache__",
                    root_dir \o "/docs/build", NT, NT \o "/sub", EX}
                -> {"absent", "dir"}
          [] p = root_dir \o "/docs" -> {"dir"}
          [] p = root_dir \o "/docs/index.html" -> {"file"}
          [] p = NT \o "/foo.so" -> {"absent", "link"}
          [] OTHER -> {"absent", "file"}]

\* where the link nautilus_trader/foo.so may point
LinkTargets ==
    {NT \o "/keep.py", NT \o "/x.so", NT \o "/sub", root_dir \o "/.coverage"}

\* the entries that may be undeletable
Lockable == {root_dir \o "/.coverage", root_dir \o "/build/lib.so", NT \o "/x.so"}

RootGroup == {p \in Paths : Parent[p] = root_dir /\ Name[p] \in FILES_TO_CLEAN}
SweptGroup == {p \in Paths : IsUnder(p, NT) \/ IsUnder(p, EX)}
DirGroup == Paths \ (RootGroup \cup SweptGroup)

\* every assignment of an allowed kind to each entry of a group
RECURSIVE Assignments(_)
Assignments(G) ==
    IF G = {} THEN {<<>>}
    ELSE LET p == CHOOSE x \in G : TRUE IN
         {g @@ (p :> k) : g \in Assignments(G \ {p}), k \in Allowed[p]}

\* the trees over a group of entries: allowed kinds, and no entry without
\* the directory that holds it
Trees(G) ==
    {g \in Assignments(G) :
        \A p \in G :
            g[p] # "absent" /\ Parent[p] \in G => g[Parent[p]] = "dir"}

\* the package tree of the project as checked out and built once
PlainSwept(f) ==
    /\ f[NT] = "dir" /\ f[NT \o "/x.so"] = "file" /\ f[NT \o "/keep.py"] = "file"
    /\ f[NT \o "/foo.so"] = "absent" /\ f[NT \o "/sub"] = "absent"
    /\ f[EX] = "dir" /\ f[EX \o "/z.html"] = "file"

\* the root of the project after one build and one test run
PlainRoot(f) ==
    /\ f[root_dir \o "/.coverage"] = "file"
    /\ f[root_dir \o "/coverage.xml"] = "absent" /\ f[root_dir \o "/dump.rdb"] = "absent"
    /\ f[root_dir \o "/build/lib.so"] = "file"
    /\ f[root_dir \o "/__pycache__"] = "dir"
    /\ f[root_dir \o "/docs/build"] = "absent"

AllTrees ==
    {a @@ b @@ c : a \in Trees(RootGroup), b \in Trees(DirGroup), c \in Trees(SweptGroup)}

\* the initial trees: every tree of the root entries over a plain package
\* tree, and every package tree under a plain root
InitTrees == {f \in AllTrees : PlainSwept(f) \/ PlainRoot(f)}

\* the undeletable entries of an initial tree: at most MaxLocked of them,
\* among the root entries over a plain package tree, in the package tree
\* under a plain root
InitLocked(f) ==
    {L \in SUBSET {p \in Lockable : f[p] # "absent"} :
        /\ Cardinality(L) <= MaxLocked
        /\ \/ PlainSwept(f) /\ L \cap SweptGroup = {}
           \/ PlainRoot(f) /\ L \subseteq SweptGroup}

Init ==
    /\ fs \in InitTrees
    /\ \E t \in LinkTargets : readlink = [p \in Paths |-> IF fs[p] = "link" THEN t ELSE ""]
    /\ locked \in InitLocked(fs)
    /\ fs0 = fs
    /\ pc = "files"
    /\ files_left = FILES_TO_CLEAN
    /\ dirs_left = DIRS_TO_CLEAN
    /\ stack = <<>>
    /\ root = ""
    /\ files = {}
    /\ removed_count = 0
    /\ reported = <<>>
    /\ err = NoErr
    /\ run = 1
    /\ prev = <<>>

\* ------------------------------------------------------------ the script
Abort(e, p) ==
    /\ pc' = "aborted"
    /\ err' = [exc |-> e, path |-> p, at |-> pc]

\* an `except` clause that catches every exception
Suppressed_any(exc) == TRUE

\* line 62: `except FileNotFoundError: pass`
Suppressed(exc) == exc = "FileNotFoundError"

\* lines 58-63: one iteration of `for target in FILES_TO_CLEAN` (a set: the
\* order of iteration is not fixed)
RemoveFile(target) ==
    LET r == os_remove(fs, join(root_dir, target)) IN
    /\ files_left' = files_left \ {target}
    /\ fs' = r.fs
    /\ IF r.exc = "" \/ Suppressed(r.exc)
       THEN /\ pc' = IF files_left' = {} THEN "dirs" ELSE "files"
            /\ err' = err
       ELSE Abort(r.exc, join(root_dir, target))
    /\ UNCHANGED <<readlink, locked, fs0, dirs_left, stack, root, files,
                   removed_count, reported, run, prev>>

FileStep == pc = "files" /\ \E target \in files_left : RemoveFile(target)

\* lines 66-68: one iteration of `for target in DIRS_TO_CLEAN`; leaving the
\* loop runs line 71 and starts os.walk on nautilus_trader/
RemoveDir(target) ==
    /\ dirs_left' = dirs_left \ {target}
    /\ fs' = rmtree(fs, join(root_dir, target))
    /\ IF dirs_left' = {}
       THEN /\ pc' = "walk_nt"
            /\ removed_count' = 0
            /\ stack' = << {root_dir \o "/nautilus_trader/"} >>
       ELSE UNCHANGED <<pc, removed_count, stack>>
    /\ UNCHANGED <<readlink, locked, fs0, files_left, root, files, reported,
                   err, run, prev>>

DirStep == pc = "dirs" /\ \E target \in dirs_left : RemoveDir(target)

\* os.walk, top-down: list the next directory, yield it, and queue the
\* directories in it to be listed after the body has seen its files
WalkEnter(d) ==
    LET rest == IF Head(stack) = {d} THEN Tail(stack)
                ELSE << Head(stack) \ {d} >> \o Tail(stack)
        into == WalkInto(fs, d)
    IN  /\ root' = d
        /\ files' = WalkFiles(fs, d)
        /\ stack' = IF into = {} THEN rest ELSE << into >> \o rest
        /\ UNCHANGED <<fs, readlink, locked, fs0, pc, files_left, dirs_left,
                       removed_count, reported, err, run, prev>>

\* a test that leaves out the suffix
Eligible_nosuffix(path) == isfile(fs, path)

\* lines 75 and 81: `os.path.isfile(path) and path.endswith(EXTENSIONS_TO_CLEAN)`
Eligible(path) == isfile(fs, path) /\ EndsWithAny(path, EXTENSIONS_TO_CLEAN)

\* `removed_count = 1` written for `removed_count += 1`
Increment_assign(n) == 1

\* lines 77 and 83: `removed_count += 1`
Increment(n) == n + 1

\* lines 74-77 and 80-83: the body of `for name in files`
SweepFile(name) ==
    LET path == join(root, name) IN
    /\ files' = files \ {name}
    /\ IF Eligible(path)
       THEN LET r == os_remove(fs, path) IN
            /\ fs' = r.fs
            /\ IF r.exc = ""
               THEN /\ removed_count' = Increment(removed_count)
                    /\ UNCHANGED <<pc, err>>
               ELSE /\ Abort(r.exc, path)
                    /\ UNCHANGED removed_count
       ELSE UNCHANGED <<fs, removed_count, pc, err>>
    /\ UNCHANGED <<readlink, locked, fs0, files_left, dirs_left, stack, root,
                   reported, run, prev>>

Walking(phase) == pc = phase /\ files = {} /\ stack # <<>>
Visiting(phase) == pc = phase /\ files # {}
Walked(phase) == pc = phase /\ files = {} /\ stack = <<>>

\* lines 72-77
NautilusEnter == Walking("walk_nt") /\ \E d \in Head(stack) : WalkEnter(d)
NautilusFile == Visiting("walk_nt") /\ \E name \in files : SweepFile(name)
\* line 78: the first walk is exhausted, os.walk starts on examples/
NautilusEnd ==
    /\ Walked("walk_nt")
    /\ pc' = "walk_ex"
    /\ stack' = << {root_dir \o "/examples/"} >>
    /\ UNCHANGED <<fs, readlink, locked, fs0, files_left, dirs_left, root, files,
                   removed_count, reported, err, run, prev>>

\* lines 78-83
ExamplesEnter == Walking("walk_ex") /\ \E d \in Head(stack) : WalkEnter(d)
ExamplesFile == Visiting("walk_ex") /\ \E name \in files : SweepFile(name)
\* line 84
Report ==
    /\ Walked("walk_ex")
    /\ reported' = << removed_count >>
    /\ pc' = "done"
    /\ UNCHANGED <<fs, readlink, locked, fs0, files_left, dirs_left, stack, root,
                   files, removed_count, err, run, prev>>

Ended == pc \in {"done", "aborted"}

\* the script is run again on the tree the last run left
RunAgain ==
    /\ Ended
    /\ run < MaxRuns
    /\ prev' = << [fs0 |-> fs0, fs |-> fs, pc |-> pc, reported |-> reported] >>
    /\ run' = run + 1
    /\ fs0' = fs
    /\ pc' = "files"
    /\ files_left' = FILES_TO_CLEAN
    /\ dirs_left' = DIRS_TO_CLEAN
    /\ stack' = <<>>
    /\ root' = ""
    /\ files' = {}
    /\ removed_count' = 0
    /\ reported' = <<>>
    /\ err' = NoErr
    /\ UNCHANGED <<fs, readlink, locked>>

Next ==
    \/ FileStep
    \/ DirStep
    \/ NautilusEnter
    \/ NautilusFile
    \/ NautilusEnd
    \/ ExamplesEnter
    \/ ExamplesFile
    \/ Report

Spec == Init /\ [][Next]_vars

NextTwice == Next \/ RunAgain

SpecTwice == Init /\ [][NextTwice]_vars

\* ----------------------------------------------------------------- claims
ListedFile(p) == \E n \in FILES_TO_CLEAN : p = root_dir \o "/" \o n
UnderListedDir(p) == \E n \in DIRS_TO_CLEAN : IsUnder(p, root_dir \o "/" \o n)
Swept(p) == p \in Paths \ {NT, EX} /\ (IsUnder(p, NT) \/ IsUnder(p, EX))
Matching(p) == EndsWithAny(Name[p], EXTENSIONS_TO_CLEAN)
Gone(p) == fs0[p] # "absent" /\ fs[p] = "absent"
FilePhaseOver == pc \in {"dirs", "walk_nt", "walk_ex", "done"}

\* C1: after a run, every file-list name that was a regular file before the
\* run is gone, and a name that was absent raised nothing and changed
\* nothing (stated for trees in which every entry can be deleted).
C1_ListedFilesGone ==
    Ended /\ locked = {} =>
        \A p \in Paths :
            ListedFile(p) =>
                /\ fs0[p] = "file" => fs[p] = "absent"
                /\ fs0[p] = "absent" => fs[p] = "absent" /\ err.path # p

\* C2: after a run, every directory-list name that was a directory is gone
\* with all beneath it, and the run raised no error (stated for trees in
\* which every entry can be deleted).
C2_ListedDirsGone ==
    Ended /\ locked = {} =>
        /\ pc = "done"
        /\ \A p \in Paths : UnderListedDir(p) => fs[p] = "absent"

\* C3: after a run that completes, no regular file with a configured suffix
\* is left below nautilus_trader/ or examples/, at any depth, and every
\* regular file there without such a suffix is still there.
C3_SweepComplete ==
    pc = "done" =>
        \A p \in Paths :
            Swept(p) =>
                /\ Matching(p) => fs[p] # "file"
                /\ ~Matching(p) => fs[p] = fs0[p]

C3_Witness ==
    /\ pc = "done"
    /\ fs0[NT \o "/sub/y.pyc"] = "file" /\ fs[NT \o "/sub/y.pyc"] = "absent"
    /\ fs0[EX \o "/z.html"] = "file" /\ fs[EX \o "/z.html"] = "absent"
    /\ fs0[NT \o "/x.so"] = "file"
    /\ fs[NT \o "/keep.py"] = "file"

\* C4: the second of two successive runs leaves the tree as the first run
\* left it and reports an extension count of 0 (stated for trees in which
\* every entry can be deleted).
C4_Idempotent ==
    run = 2 /\ Ended /\ locked = {} =>
        /\ fs = prev[1].fs
        /\ reported = <<0>>

\* C5 as claimed: after a run that completes, every link with a configured
\* suffix below a swept subtree is still there.
C5_LinksKept ==
    pc = "done" =>
        \A p \in Paths :
            Swept(p) /\ Matching(p) /\ fs0[p] = "link" => fs[p] = "link"

\* C5 as amended: a link with a configured suffix below a swept subtree is
\* removed only if it pointed at a regular file, only the link goes (a
\* target without a configured suffix stays), the removal is counted, and
\* after a run that completes no such link resolves to a regular file.
C5_LinksToFilesRemoved ==
    \A p \in Paths :
        Swept(p) /\ Matching(p) /\ fs0[p] = "link" =>
            /\ fs[p] \in {"link", "absent"}
            /\ fs[p] = "absent" =>
                  /\ fs0[readlink[p]] = "file"
                  /\ pc \in {"walk_nt", "walk_ex", "done", "aborted"}
                  /\ removed_count >= 1
                  /\ Swept(readlink[p]) /\ ~Matching(readlink[p])
                        => fs[readlink[p]] = "file"
            /\ pc = "done" /\ fs[p] = "link" => fs[readlink[p]] # "file"

C5_Witness ==
    /\ pc = "done"
    /\ fs0[NT \o "/foo.so"] = "link" /\ readlink[NT \o "/foo.so"] = NT \o "/keep.py"
    /\ fs[NT \o "/foo.so"] = "absent"
    /\ fs[NT \o "/keep.py"] = "file"
    /\ fs0[NT \o "/x.so"] = "absent"
    /\ fs0[NT \o "/sub"] = "absent"
    /\ reported = <<1>>

\* C6: on a run that completes the reported count is the number of entries
\* the sweep took away below the two subtrees together; entries removed by
\* the two list phases and files without a configured suffix are not
\* counted.  Without links that is the number of regular files with a
\* configured suffix below nautilus_trader/ and examples/ before the run.
C6_CountIsSweepRemovals ==
    pc = "done" =>
        /\ reported = << Cardinality({p \in Paths : Swept(p) /\ Gone(p)}) >>
        /\ (\A p \in Paths : fs0[p] # "link") =>
              reported = << Cardinality({p \in Paths :
                                Swept(p) /\ Matching(p) /\ fs0[p] = "file"}) >>

C6_Witness ==
    /\ pc = "done"
    /\ reported = <<3>>
    /\ fs0[NT \o "/x.so"] = "file" /\ fs0[NT \o "/sub/y.pyc"] = "file"
    /\ fs0[EX \o "/z.html"] = "file" /\ fs0[NT \o "/keep.py"] = "file"
    /\ fs[NT \o "/keep.py"] = "file"
    /\ Gone(root_dir \o "/.coverage") /\ Gone(root_dir \o "/build")
    /\ Gone(root_dir \o "/build/lib.so") /\ Gone(root_dir \o "/__pycache__")

\* C7: a removal in the file phase that fails for another reason than
\* absence ends the run there: nothing but regular files of the file list is
\* gone, no directory-list target was reached, no count is reported; and
\* the file phase is passed only when every listed name was absent or was
\* removed.
C7_FilePhaseAborts ==
    /\ pc = "aborted" /\ err.at = "files" =>
          /\ err.exc \in {"IsADirectoryError", "PermissionError"}
          /\ ListedFile(err.path)
          /\ fs0[err.path] = "dir" \/ err.path \in locked
          /\ dirs_left = DIRS_TO_CLEAN
          /\ \A p \in Paths : fs[p] # fs0[p] => ListedFile(p) /\ fs0[p] = "file"
          /\ removed_count = 0
          /\ reported = <<>>
    /\ FilePhaseOver =>
          \A p \in Paths :
              ListedFile(p) /\ fs0[p] # "absent" =>
                  fs0[p] = "file" /\ p \notin locked

C7_Witness ==
    /\ pc = "aborted" /\ err.at = "files"
    /\ err.exc = "PermissionError"
    /\ Gone(root_dir \o "/dump.rdb")
    /\ fs[root_dir \o "/build/lib.so"] = "file"
    /\ fs[NT \o "/x.so"] = "file"

\* C8: for coverage.xml and dump.rdb the attempt that does not fit the kind
\* of the entry raises nothing: no run ends on an error raised for one of
\* the two paths while it is a directory.
C8_MismatchHarmless ==
    \A n \in FILES_TO_CLEAN \cap DIRS_TO_CLEAN :
        Kind(fs0, root_dir \o "/" \o n) = "dir" => err.path # root_dir \o "/" \o n

\* C10: whatever the run does, an entry that differs from what it was
\* before the run is gone, and it is a file-list path, lies in a
\* directory-list tree, or lies below a swept subtree and has a configured
\* suffix; nothing is created or changed in kind.
C10_Frame ==
    \A p \in Paths :
        fs[p] # fs0[p] =>
            /\ fs[p] = "absent"
            /\ \/ ListedFile(p)
               \/ UnderListedDir(p)
               \/ Swept(p) /\ Matching(p)

C10_Witness ==
    /\ pc = "done"
    /\ Gone(NT \o "/x.so") /\ Gone(root_dir \o "/build") /\ Gone(root_dir \o "/.coverage")
    /\ fs[NT \o "/keep.py"] = "file"
    /\ fs[NT \o "/sub"] = "dir"
    /\ fs[root_dir \o "/docs/index.html"] = "file"
    /\ fs[NT \o "/foo.so"] = "link"

====
